---- MODULE Spec2Model ----
(***************************************************************************)
(* State-machine model of the AccountManagement zkApp                      *)
(* (chrlyz/proof_of_commitment).  The repository holds several iterations  *)
(* of the contract; they are modelled here over one set of variables:      *)
(*                                                                         *)
(*   SpecNumbered     src/src/AccountManagement.ts:1-344  (MerkleTree, the *)
(*                    accountNumber counter, a provider per entry)         *)
(*   SpecMap          src/unnamed/part_000:222-613  (MerkleMap, with       *)
(*                    addFundsRequest / processAddFundsRequest)            *)
(*   SpecMapOperated, SpecMapCustody  the same contract with the users and *)
(*                    the operator of its tests (src/unnamed/part_002)     *)
(*   SpecReplay       src/unnamed/part_001  (sign-up tag 0, sign-up        *)
(*                    settlement keeps the root of a registered key);      *)
(*                    SpecReplaySignUp is its sign-up flow                 *)
(*   SpecAccumulated  src/src/AccountManagement.ts:346-538  (the root      *)
(*                    accumulated inside the fold of the settlement)       *)
(*                                                                         *)
(* Abstractions.  Poseidon is collision resistant, so a hash is modelled   *)
(* by the tuple of the fields it absorbs, Field(0) by the empty tuple, a   *)
(* Merkle root by the vector of leaves it commits to, and a Merkle witness *)
(* by its index/key together with the leaves of every other position (what *)
(* its sibling path commits to).  Amounts are in units of 10^9 nanomina.   *)
(* A call whose assertion fails leaves the contract untouched; the model   *)
(* records in `last` the name of the last call, whether it succeeded, and  *)
(* three facts about its arguments, so that failed calls are visible.      *)
(***************************************************************************)
EXTENDS Integers, Sequences, FiniteSets, Bags, TLC

\* ------------------------------------------------------------------ bounds
\* Longest action log explored.
MaxActions == 3
\* Distinct user identities.
NumUsers == 2

\* --------------------------------------------------------------- constants
\* Order of the native field, scaled down (Field arithmetic wraps around it);
\* a bound of the model, well above every count and amount explored.
FieldOrder == 251
initialBalance == 5
signUpMethodID == 1
releaseFundsRequestMethodID == 2
addFundsRequestMethodID == 3

\* PublicKey.empty()
emptyPublicKey == 0
PublicKeys == 1 .. NumUsers
\* The only receiver of released funds that callers name.
serviceProviderAddress == NumUsers + 1
\* Amounts a caller may ask to add or release (the tests add and release
\* 1 MINA).  A release may also ask for one more than the balance of the
\* account state it supplies.
Amounts == {1}

VARIABLES
    actions,                 \* the reducer's action log (append-only)
    accountNumber,           \* @state accountNumber
    numberOfPendingActions,  \* @state numberOfPendingActions
    actionTurn,              \* @state actionTurn
    startOfActionsRange,     \* @state startOfActionsRange
    endOfActionsRange,       \* @state endOfActionsRange
    accountsRoot,            \* @state accountsRoot
    zkAppBalance,            \* MINA held by the contract account
    received,                \* MINA paid out by the contract, per receiver
    staleRoot,               \* the root before the last successful settlement
    settled,                 \* history: the actions settlements have applied
    tree,                    \* history: the tree an honest operator keeps off-chain
    amounts,                 \* history: the amount each log entry's request named
    last                     \* the last call: its name, outcome and argument facts

contractVars == <<accountNumber, numberOfPendingActions, actionTurn,
                  startOfActionsRange, endOfActionsRange, accountsRoot>>
rangeVars == <<numberOfPendingActions, actionTurn, startOfActionsRange,
               endOfActionsRange, accountsRoot>>
ledgerVars == <<zkAppBalance, received>>
historyVars == <<staleRoot, settled, tree>>
vars == <<actions, contractVars, ledgerVars, historyVars, amounts, last>>

\* ------------------------------------------------------------------ Field
FieldAdd(a, b) == (a + b) % FieldOrder
FieldSub(a, b) == (a - b) % FieldOrder

\* ----------------------------------------------------------- action log
\* Reducer.initialActionsHash
initialActionsHash == <<>>
\* The hash chain of the log: H(previous hash, action).
updateActionsHash(h, action) == <<h, action>>

RECURSIVE actionsHashOf(_, _)
\* The chained hash after the first n entries of log.
actionsHashOf(log, n) ==
    IF n = 0 THEN initialActionsHash
    ELSE updateActionsHash(actionsHashOf(log, n - 1), log[n])

\* The number of entries the log held when its chained hash was h.
cursorIndex(log, h) == CHOOSE n \in 0 .. Len(log) : actionsHashOf(log, n) = h

startOfAllActions == initialActionsHash

\* reducer.getActions({fromActionHash}) : every entry after the cursor.
getActionsFrom(fromActionHash) ==
    SubSeq(actions, cursorIndex(actions, fromActionHash) + 1, Len(actions))

\* Faulty variant of getActionsBetween: the end of the range is ignored and
\* every entry after the start is returned.
getActionsBetween_toHead(fromActionHash, endActionHash) ==
    SubSeq(actions, cursorIndex(actions, fromActionHash) + 1, Len(actions))

\* reducer.getActions({fromActionHash, endActionHash})
getActionsBetween(fromActionHash, endActionHash) ==
    SubSeq(actions, cursorIndex(actions, fromActionHash) + 1,
           cursorIndex(actions, endActionHash))

\* ------------------------------------------------------------ Merkle tree
\* Field(0), the value of a leaf nothing was written to.
emptyLeaf == <<>>
\* Leaf positions in use: indices of the MerkleTree (the accountNumber counter
\* starts at 1), or keys of the MerkleMap.
Indices == 1 .. NumUsers
\* new MerkleTree(21) / new MerkleMap() : every leaf empty.
emptyTree == [i \in Indices |-> emptyLeaf]
\* tree.getRoot() : the commitment to every leaf.
root == emptyTree

\* tree.getWitness(i) : position i and what the sibling path commits to.
getWitness(t, i) == [index |-> i, path |-> [t EXCEPT ![i] = emptyLeaf]]
\* accountWitness.calculateRoot(leaf) / computeRootAndKey(leaf)[0]
calculateRoot(w, leaf) == [w.path EXCEPT ![w.index] = leaf]
\* accountWitness.calculateIndex()
calculateIndex(w) == w.index

\* Witnesses a caller can hold: taken from the committed tree, or from the
\* tree as it was before the last settlement (stale).
Witnesses == {getWitness(t, i) : t \in {accountsRoot, staleRoot}, i \in Indices}

\* --------------------------------------------- callbacks of the folds
\* Circuit.if
Circuit_if(b, x, y) == IF b THEN x ELSE y

\* Faulty variant of noAction: the state the fold starts from carries the
\* sign-up tag.
noAction_signUpTag ==
    [publicKey |-> emptyPublicKey, accountNumber |-> 0, balance |-> 0,
     actionOrigin |-> signUpMethodID, provider |-> emptyPublicKey, released |-> 0]

\* getCurrentAction (MerkleTree variant): the state its fold starts from.
noAction == [publicKey |-> emptyPublicKey, accountNumber |-> 0, balance |-> 0,
             actionOrigin |-> 0, provider |-> emptyPublicKey, released |-> 0]

\* Faulty variant of selectCurrent: every entry from the turn on replaces the state, so
\* the last entry of the range is the one returned.
selectCurrent_latest(state, action) ==
    [index |-> FieldAdd(state.index, 1),
     action |-> Circuit_if(state.index >= actionTurn, action, state.action)]

\* Faulty variant of selectCurrent: the entry before the turn is the one selected.
selectCurrent_offByOne(state, action) ==
    [index |-> FieldAdd(state.index, 1),
     action |-> Circuit_if(FieldAdd(state.index, 1) = actionTurn, action,
                           state.action)]

\* One step of the fold: every field is replaced when index = actionTurn.
selectCurrent(state, action) ==
    LET isCurrentAction == state.index = actionTurn
    IN [index |-> FieldAdd(state.index, 1),
        action |->
          [publicKey |-> Circuit_if(isCurrentAction, action.publicKey,
                                    state.action.publicKey),
           accountNumber |-> Circuit_if(isCurrentAction, action.accountNumber,
                                        state.action.accountNumber),
           balance |-> Circuit_if(isCurrentAction, action.balance,
                                  state.action.balance),
           actionOrigin |-> Circuit_if(isCurrentAction, action.actionOrigin,
                                       state.action.actionOrigin),
           provider |-> Circuit_if(isCurrentAction, action.provider,
                                   state.action.provider),
           released |-> Circuit_if(isCurrentAction, action.released,
                                   state.action.released)]]

\* getCurrentAction (MerkleMap variant): the state its fold starts from.
map_noAction == [publicKey |-> emptyPublicKey, balance |-> 0,
                 actionOrigin |-> 0, released |-> 0]

\* Faulty variant of map_selectCurrent: every entry from the turn on replaces the state.
map_selectCurrent_latest(state, action) ==
    [index |-> FieldAdd(state.index, 1),
     action |-> Circuit_if(state.index >= actionTurn, action, state.action)]

\* One step of the fold of getCurrentAction.
map_selectCurrent(state, action) ==
    LET isCurrentAction == state.index = actionTurn
    IN [index |-> FieldAdd(state.index, 1),
        action |->
          [publicKey |-> Circuit_if(isCurrentAction, action.publicKey,
                                    state.action.publicKey),
           balance |-> Circuit_if(isCurrentAction, action.balance,
                                  state.action.balance),
           actionOrigin |-> Circuit_if(isCurrentAction, action.actionOrigin,
                                       state.action.actionOrigin),
           released |-> Circuit_if(isCurrentAction, action.released,
                                   state.action.released)]]

\* Account.hash() of the accumulator variant: Poseidon over publicKey and
\* accountNumber.
acc_hash(a) == <<a.publicKey, a.accountNumber>>

\* A Merkle root taken as a Field that is added to others: a sum of roots is
\* the bag of the roots added, Field(0) the empty bag.
rootAsField(r) == SetToBag({r})

\* The callback of processSignUpRequestAction in the accumulator variant; f
\* carries the actionTurn and the accountWitness it captures.
foldAccountsRoot(f, state, action) ==
    LET isCurrentAction == state.index = f.actionTurn
        typedAction == [publicKey |-> action.publicKey,
                        accountNumber |-> action.accountNumber]
        newAccountsRoot ==
            rootAsField(calculateRoot(f.accountWitness, acc_hash(typedAction)))
    IN [index |-> FieldAdd(state.index, 1),
        accountsRoot |-> state.accountsRoot
                         (+) Circuit_if(isCurrentAction, newAccountsRoot,
                                        state.accountsRoot)]

\* The callbacks handed to reducer.reduce, each with the values it captures:
\* requestSignUp's (has any entry this publicKey?), the counter of
\* setRangeOfActionsToBeProcessed, the selectors of getCurrentAction, and the
\* root accumulator of the accumulator variant.
applyCallback(f, state, action) ==
    CASE f.name = "exists" -> (action.publicKey = f.publicKey) \/ state
      [] f.name = "count" -> FieldAdd(state, 1)
      [] f.name = "selectCurrent" -> selectCurrent(state, action)
      [] f.name = "map_selectCurrent" -> map_selectCurrent(state, action)
      [] f.name = "foldAccountsRoot" -> foldAccountsRoot(f, state, action)

RECURSIVE reduce(_, _, _)
\* reducer.reduce : folds the callback f over the entries, oldest first; the
\* fold also carries the chained hash.  acc is [state, actionsHash].
reduce(list, f, acc) ==
    IF list = <<>> THEN acc
    ELSE reduce(Tail(list), f,
                [state |-> applyCallback(f, acc.state, Head(list)),
                 actionsHash |-> updateActionsHash(acc.actionsHash, Head(list))])

\* Faulty variant of dispatch: the entry is put in front of the older ones.
dispatch_prepend(action) == <<action>> \o actions

\* reducer.dispatch : appends one entry at the head.
dispatch(action) == Append(actions, action)

\* ------------------------------------------------- numbered variant: Account
\* Account.hash() : Poseidon over publicKey, accountNumber, balance,
\* actionOrigin, provider, released.
hash(a) == <<a.publicKey, a.accountNumber, a.balance, a.actionOrigin,
             a.provider, a.released>>
\* The account a leaf hash was computed from (known to whoever built the leaf).
accountOf(h) == [publicKey |-> h[1], accountNumber |-> h[2], balance |-> h[3],
                 actionOrigin |-> h[4], provider |-> h[5], released |-> h[6]]

\* The non-empty leaves of a tree.
leavesOf(t) == {t[i] : i \in Indices} \ {emptyLeaf}

\* Account states a caller can supply: those committed now (the only ones that
\* can pass the root check, the hash being injective) and those committed
\* before the last settlement (which fail it).
AccountStates ==
    {accountOf(l) : l \in leavesOf(accountsRoot) \cup leavesOf(staleRoot)}

\* The record of a call: publicKey is the identity a requestSignUp names (the
\* empty key for every other call); rootOk says whether the supplied witness,
\* with the supplied account state (the empty leaf for a sign-up settlement),
\* reconstructs the committed root; signed whether the identity concerned
\* signed the transaction; amountOk whether the amount asked for is within the
\* supplied balance.  A fact a call has no argument for is TRUE.
call(op, publicKey, rootOk, signed, amountOk) ==
    [op |-> op, ok |-> TRUE, publicKey |-> publicKey, rootOk |-> rootOk,
     signed |-> signed, amountOk |-> amountOk]

\* Whether witness w with leaf reconstructs the committed root.
reconstructs(w, leaf) == calculateRoot(w, leaf) = accountsRoot

\* Faulty variant of failed: the account-number counter keeps an increment made
\* before the failing assertion.
failed_counterKept(c) ==
    /\ last' = [c EXCEPT !.ok = FALSE]
    /\ accountNumber' = FieldAdd(accountNumber, 1)
    /\ UNCHANGED <<actions, rangeVars, ledgerVars, historyVars, amounts>>

\* A call that failed an assertion: nothing of the contract, the log or the
\* ledger changes.
failed(c) ==
    /\ last' = [c EXCEPT !.ok = FALSE]
    /\ UNCHANGED <<actions, contractVars, ledgerVars, historyVars, amounts>>

\* ------------------------------------------- numbered variant: deploy / Init
deploy ==
    /\ actions = <<>>
    /\ accountNumber = 1
    /\ numberOfPendingActions = 0
    /\ actionTurn = 0
    /\ startOfActionsRange = initialActionsHash
    /\ endOfActionsRange = initialActionsHash
    /\ accountsRoot = root
    /\ zkAppBalance = 0
    /\ received = [p \in {serviceProviderAddress} |-> 0]
    /\ staleRoot = root
    /\ settled = <<>>
    /\ tree = emptyTree
    /\ amounts = <<>>
    /\ last = call("deploy", emptyPublicKey, TRUE, TRUE, TRUE)

\* ------------------------------------------------ numbered: requestSignUp
\* Faulty variant of exists: only the entries after the last frozen range are checked.
exists_sinceRangeEnd(publicKey) ==
    reduce(getActionsFrom(endOfActionsRange),
           [name |-> "exists", publicKey |-> publicKey],
           [state |-> FALSE, actionsHash |-> endOfActionsRange]).state

\* The fold of requestSignUp: does any entry of the whole log carry publicKey?
exists(publicKey) ==
    reduce(getActionsFrom(startOfAllActions),
           [name |-> "exists", publicKey |-> publicKey],
           [state |-> FALSE, actionsHash |-> startOfAllActions]).state

\* The assertions of requestSignUp.
requestSignUp_asserts(publicKey, signed) ==
    /\ signed
    /\ exists(publicKey) = FALSE

requestSignUp(publicKey, signed) ==
    /\ Len(actions) < MaxActions
    /\ IF requestSignUp_asserts(publicKey, signed)
       THEN /\ zkAppBalance' = zkAppBalance + initialBalance
            /\ actions' = dispatch([publicKey |-> publicKey,
                                    accountNumber |-> 0,
                                    balance |-> initialBalance,
                                    actionOrigin |-> signUpMethodID,
                                    provider |-> emptyPublicKey,
                                    released |-> 0])
            /\ last' = call("requestSignUp", publicKey, TRUE, signed, TRUE)
            /\ amounts' = Append(amounts, initialBalance)
            /\ UNCHANGED <<contractVars, received, historyVars>>
       ELSE failed(call("requestSignUp", publicKey, TRUE, signed, TRUE))

\* ------------------------------- setRangeOfActionsToBeProcessed (openRange)
\* Faulty variant of setRange_asserts: the pending count is not checked.
setRange_asserts_none == TRUE

\* The assertion of setRangeOfActionsToBeProcessed.
setRange_asserts == numberOfPendingActions = 0

\* Faulty variant of countPending: the fold starts from the first action ever emitted.
countPending_fromGenesis(fromActionHash) ==
    reduce(getActionsFrom(startOfAllActions),
           [name |-> "count"],
           [state |-> 0, actionsHash |-> startOfAllActions])

\* The fold of setRangeOfActionsToBeProcessed: counts the entries after the
\* previous end of range and chains their hashes.
countPending(fromActionHash) ==
    reduce(getActionsFrom(fromActionHash),
           [name |-> "count"],
           [state |-> 0, actionsHash |-> fromActionHash])

\* Faulty variant of setRangeOfActionsToBeProcessed: the start of the range is
\* not moved to the previous end.
setRangeOfActionsToBeProcessed_startKept ==
    IF setRange_asserts
    THEN LET counted == countPending(endOfActionsRange)
         IN /\ actionTurn' = 0
            /\ numberOfPendingActions' = counted.state
            /\ endOfActionsRange' = counted.actionsHash
            /\ last' = call("setRangeOfActionsToBeProcessed", emptyPublicKey, TRUE, TRUE, TRUE)
            /\ UNCHANGED <<actions, accountNumber, accountsRoot, ledgerVars,
                           historyVars, amounts, startOfActionsRange>>
    ELSE failed(call("setRangeOfActionsToBeProcessed", emptyPublicKey, TRUE, TRUE, TRUE))

setRangeOfActionsToBeProcessed ==
    IF setRange_asserts
    THEN LET counted == countPending(endOfActionsRange)
         IN /\ actionTurn' = 0
            /\ numberOfPendingActions' = counted.state
            /\ startOfActionsRange' = endOfActionsRange
            /\ endOfActionsRange' = counted.actionsHash
            /\ last' = call("setRangeOfActionsToBeProcessed", emptyPublicKey, TRUE, TRUE, TRUE)
            /\ UNCHANGED <<actions, accountNumber, accountsRoot, ledgerVars,
                           historyVars, amounts>>
    ELSE failed(call("setRangeOfActionsToBeProcessed", emptyPublicKey, TRUE, TRUE, TRUE))

\* ----------------------------------------------- numbered: getCurrentAction
getCurrentAction ==
    [action |-> reduce(getActionsBetween(startOfActionsRange, endOfActionsRange),
                       [name |-> "selectCurrent"],
                       [state |-> [index |-> 0, action |-> noAction],
                        actionsHash |-> startOfActionsRange]).state.action,
     startOfActionsRange |-> startOfActionsRange,
     endOfActionsRange |-> endOfActionsRange,
     actionTurn |-> actionTurn]

\* ------------------------------------------------- the operator's own tree
\* Position in the log of the start and of the end of the frozen range, and
\* the number of entries frozen.
rangeStart == cursorIndex(actions, startOfActionsRange)
rangeEnd == cursorIndex(actions, endOfActionsRange)
rangeLength == rangeEnd - rangeStart

\* getActionsRange().actions[actionTurn] : the entry an operator reads by
\* direct indexed access into the frozen range (there is one while the turn is
\* within the range).
entryAtTurn == actions[rangeStart + actionTurn + 1]

\* test helper processSignUpAction : the leaf the operator sets for a sign-up.
signUpLeaf(action) == hash([action EXCEPT !.accountNumber = accountNumber])
\* test helper processReleaseFundsAction : the leaf set for a release.
releaseLeaf(action) ==
    hash([action EXCEPT !.balance = action.balance - action.released,
                        !.released = 0])

\* Faulty variant of advance: the number of pending actions is not decreased.
advance_noDecrement(c, action, accountWitness, newLeaf, operatorLeaf) ==
    /\ accountsRoot' = calculateRoot(accountWitness, newLeaf)
    /\ actionTurn' = FieldAdd(actionTurn, 1)
    /\ staleRoot' = accountsRoot
    /\ settled' = Append(settled, action)
    /\ tree' = IF actionTurn < rangeLength
               THEN [tree EXCEPT ![calculateIndex(accountWitness)] = operatorLeaf]
               ELSE tree
    /\ last' = c
    /\ UNCHANGED <<actions, amounts, startOfActionsRange, endOfActionsRange,
                   numberOfPendingActions>>

\* ------------------------------------------------ what every settlement does
\* A successful settlement writes the new root, advances the turn and takes one
\* off the number of pending actions.  (The history variables follow: the
\* action applied, the root replaced, and the leaf an operator sets in its own
\* tree at the position of the witness.)
advance(c, action, accountWitness, newLeaf, operatorLeaf) ==
    /\ accountsRoot' = calculateRoot(accountWitness, newLeaf)
    /\ actionTurn' = FieldAdd(actionTurn, 1)
    /\ numberOfPendingActions' = FieldSub(numberOfPendingActions, 1)
    /\ staleRoot' = accountsRoot
    /\ settled' = Append(settled, action)
    /\ tree' = IF actionTurn < rangeLength
               THEN [tree EXCEPT ![calculateIndex(accountWitness)] = operatorLeaf]
               ELSE tree
    /\ last' = c
    /\ UNCHANGED <<actions, amounts, startOfActionsRange, endOfActionsRange>>

\* -------------------------------- numbered: processSignUpRequestAction
\* Faulty variant of processSignUp_asserts: the tag of the action is not checked.
processSignUp_asserts_noTag(accountWitness) ==
    /\ accountsRoot = calculateRoot(accountWitness, emptyLeaf)
    /\ accountNumber = calculateIndex(accountWitness)

\* Faulty variant of processSignUp_asserts: the witness is not checked against the root.
processSignUp_asserts_noRoot(accountWitness) ==
    /\ getCurrentAction.action.actionOrigin = signUpMethodID
    /\ accountNumber = calculateIndex(accountWitness)

\* Faulty variant of processSignUp_asserts: the index of the witness is not
\* compared with the account number.
processSignUp_asserts_noIndex(accountWitness) ==
    /\ accountsRoot = calculateRoot(accountWitness, emptyLeaf)
    /\ getCurrentAction.action.actionOrigin = signUpMethodID

\* The assertions of processSignUpRequestAction, in the order of the code.
processSignUp_asserts(accountWitness) ==
    /\ accountsRoot = calculateRoot(accountWitness, emptyLeaf)
    /\ getCurrentAction.action.actionOrigin = signUpMethodID
    /\ accountNumber = calculateIndex(accountWitness)

processSignUpRequestAction(accountWitness) ==
    LET c == call("processSignUpRequestAction", emptyPublicKey,
                  reconstructs(accountWitness, emptyLeaf), TRUE, TRUE)
    IN IF processSignUp_asserts(accountWitness)
       THEN LET action == getCurrentAction.action
                accountState == [action EXCEPT !.accountNumber = accountNumber]
            IN /\ accountNumber' = FieldAdd(accountNumber, 1)
               /\ advance(c, action, accountWitness, hash(accountState),
                          signUpLeaf(entryAtTurn))
               /\ UNCHANGED ledgerVars
       ELSE failed(c)

\* ---------------------------------------- numbered: releaseFundsRequest
\* Faulty variant of releaseFundsRequest_asserts: the amount is not compared
\* with the balance.
releaseFundsRequest_asserts_noAmount(accountState, accountWitness, amount, signed) ==
    /\ accountsRoot = calculateRoot(accountWitness, hash(accountState))
    /\ signed

\* The assertions of releaseFundsRequest.
releaseFundsRequest_asserts(accountState, accountWitness, amount, signed) ==
    /\ accountsRoot = calculateRoot(accountWitness, hash(accountState))
    /\ amount <= accountState.balance
    /\ signed

\* Faulty variant of releaseRequestState: the balance is already reduced in
\* the entry dispatched.
releaseRequestState_reduced(accountState, provider, amount) ==
    [accountState EXCEPT !.actionOrigin = releaseFundsRequestMethodID,
                         !.provider = provider,
                         !.released = amount,
                         !.balance = accountState.balance - amount]

\* releaseFundsRequest: the account state dispatched, a copy of the supplied
\* one with the release tag, the provider and the amount to release.
releaseRequestState(accountState, provider, amount) ==
    [accountState EXCEPT !.actionOrigin = releaseFundsRequestMethodID,
                         !.provider = provider,
                         !.released = amount]

releaseFundsRequest(accountState, accountWitness, provider, amount, signed) ==
    LET c == call("releaseFundsRequest", emptyPublicKey,
                  reconstructs(accountWitness, hash(accountState)), signed,
                  amount <= accountState.balance)
    IN /\ Len(actions) < MaxActions
       /\ IF releaseFundsRequest_asserts(accountState, accountWitness, amount, signed)
          THEN /\ actions' = dispatch(
                     releaseRequestState(accountState, provider, amount))
               /\ last' = c
               /\ amounts' = Append(amounts, amount)
               /\ UNCHANGED <<contractVars, ledgerVars, historyVars>>
          ELSE failed(c)

\* --------------------------------- numbered: processReleaseFundsRequest
\* The assertions of processReleaseFundsRequest, with the two checks the
\* calls it makes carry: this.send needs the funds, UInt64.sub a result >= 0.
processRelease_asserts(accountState, accountWitness) ==
    /\ accountsRoot = calculateRoot(accountWitness, hash(accountState))
    /\ getCurrentAction.action.actionOrigin = releaseFundsRequestMethodID
    /\ getCurrentAction.action.released <= zkAppBalance
    /\ getCurrentAction.action.released <= getCurrentAction.action.balance

processReleaseFundsRequest(accountState, accountWitness) ==
    LET c == call("processReleaseFundsRequest", emptyPublicKey,
                  reconstructs(accountWitness, hash(accountState)), TRUE, TRUE)
    IN IF processRelease_asserts(accountState, accountWitness)
       THEN LET action == getCurrentAction.action
                newAccountState ==
                    [action EXCEPT !.balance = action.balance - action.released,
                                   !.released = 0]
            IN /\ zkAppBalance' = zkAppBalance - action.released
               /\ received' = [received EXCEPT ![action.provider] =
                                                  @ + action.released]
               /\ advance(c, action, accountWitness, hash(newAccountState),
                          releaseLeaf(entryAtTurn))
               /\ UNCHANGED accountNumber
       ELSE failed(c)

\* ------------------------------------------------ numbered: specification
Providers == {serviceProviderAddress}

NextNumbered ==
    \/ \E publicKey \in PublicKeys, signed \in BOOLEAN :
          requestSignUp(publicKey, signed)
    \/ setRangeOfActionsToBeProcessed
    \/ \E w \in Witnesses : processSignUpRequestAction(w)
    \/ \E a \in AccountStates, w \in Witnesses, p \in Providers,
          signed \in BOOLEAN :
          \E amount \in Amounts \cup {a.balance + 1} :
             releaseFundsRequest(a, w, p, amount, signed)
    \/ \E a \in AccountStates, w \in Witnesses : processReleaseFundsRequest(a, w)

SpecNumbered == deploy /\ [][NextNumbered]_vars

\* ======================================================= MerkleMap variant
\* Account.hash() : Poseidon over publicKey, balance, actionOrigin, released.
map_hash(a) == <<a.publicKey, a.balance, a.actionOrigin, a.released>>
\* The account a leaf hash was computed from.
map_accountOf(h) == [publicKey |-> h[1], balance |-> h[2],
                     actionOrigin |-> h[3], released |-> h[4]]

\* Account states a caller can supply (see AccountStates).
map_AccountStates ==
    {map_accountOf(l) : l \in leavesOf(accountsRoot) \cup leavesOf(staleRoot)}

\* user1AsAccount, user2AsAccount of the tests: the account state a user who
\* never saw a settlement holds of itself.
map_userAsAccount(publicKey) ==
    [publicKey |-> publicKey, balance |-> initialBalance,
     actionOrigin |-> 0, released |-> 0]

\* Account states a caller can build a request on: the committed and the
\* superseded ones, and the ones never committed.
map_RequestStates ==
    map_AccountStates \cup {map_userAsAccount(p) : p \in PublicKeys}

\* deploy : this variant has no accountNumber state; the variable stays 0.
map_deploy ==
    /\ actions = <<>>
    /\ accountNumber = 0
    /\ numberOfPendingActions = 0
    /\ actionTurn = 0
    /\ startOfActionsRange = initialActionsHash
    /\ endOfActionsRange = initialActionsHash
    /\ accountsRoot = root
    /\ zkAppBalance = 0
    /\ received = [p \in {serviceProviderAddress} |-> 0]
    /\ staleRoot = root
    /\ settled = <<>>
    /\ tree = emptyTree
    /\ amounts = <<>>
    /\ last = call("deploy", emptyPublicKey, TRUE, TRUE, TRUE)

\* The assertions of requestSignUp: the transfer out of publicKey's account
\* needs that account's signature; no entry of the log carries publicKey.
map_requestSignUp_asserts(publicKey, signed) ==
    /\ signed
    /\ exists(publicKey) = FALSE

map_requestSignUp_method(publicKey, signed) ==
    IF map_requestSignUp_asserts(publicKey, signed)
       THEN /\ zkAppBalance' = zkAppBalance + initialBalance
            /\ actions' = dispatch([publicKey |-> publicKey,
                                    balance |-> initialBalance,
                                    actionOrigin |-> signUpMethodID,
                                    released |-> 0])
            /\ last' = call("requestSignUp", publicKey, TRUE, signed, TRUE)
            /\ amounts' = Append(amounts, initialBalance)
            /\ UNCHANGED <<contractVars, received, historyVars>>
       ELSE failed(call("requestSignUp", publicKey, TRUE, signed, TRUE))

\* requestSignUp while the log has room for one more entry.
map_requestSignUp(publicKey, signed) ==
    /\ Len(actions) < MaxActions
    /\ map_requestSignUp_method(publicKey, signed)

map_getCurrentAction ==
    [action |-> reduce(getActionsBetween(startOfActionsRange, endOfActionsRange),
                       [name |-> "map_selectCurrent"],
                       [state |-> [index |-> 0, action |-> map_noAction],
                        actionsHash |-> startOfActionsRange]).state.action,
     startOfActionsRange |-> startOfActionsRange,
     endOfActionsRange |-> endOfActionsRange,
     actionTurn |-> actionTurn]

\* test helpers processSignUpAction / processAddFundsAction : the leaf the
\* operator sets is the hash of the entry.
map_entryLeaf(action) == map_hash(action)
\* test helper processReleaseFundsAction
map_releaseLeaf(action) ==
    map_hash([action EXCEPT !.balance = action.balance - action.released,
                            !.released = 0])

\* Faulty variant of map_processSignUp_asserts: the witness is not checked
\* against the root.
map_processSignUp_asserts_noRoot(accountWitness) ==
    map_getCurrentAction.action.actionOrigin = signUpMethodID

\* The assertions of processSignUpRequestAction.
map_processSignUp_asserts(accountWitness) ==
    /\ accountsRoot = calculateRoot(accountWitness, emptyLeaf)
    /\ map_getCurrentAction.action.actionOrigin = signUpMethodID

map_processSignUpRequestAction(accountWitness) ==
    LET c == call("processSignUpRequestAction", emptyPublicKey,
                  reconstructs(accountWitness, emptyLeaf), TRUE, TRUE)
    IN IF map_processSignUp_asserts(accountWitness)
       THEN LET action == map_getCurrentAction.action
                accountState == action
            IN /\ advance(c, action, accountWitness, map_hash(accountState),
                          map_entryLeaf(entryAtTurn))
               /\ UNCHANGED <<accountNumber, ledgerVars>>
       ELSE failed(c)

\* The assertions of releaseFundsRequest.
map_releaseFundsRequest_asserts(accountState, accountWitness, amount, signed) ==
    /\ accountsRoot = calculateRoot(accountWitness, map_hash(accountState))
    /\ amount <= accountState.balance
    /\ signed

map_releaseFundsRequest_method(accountState, accountWitness, amount, signed) ==
    LET c == call("releaseFundsRequest", emptyPublicKey,
                  reconstructs(accountWitness, map_hash(accountState)), signed,
                  amount <= accountState.balance)
    IN IF map_releaseFundsRequest_asserts(accountState, accountWitness,
                                          amount, signed)
          THEN /\ actions' = dispatch(
                     [accountState EXCEPT !.actionOrigin = releaseFundsRequestMethodID,
                                          !.released = amount])
               /\ last' = c
               /\ amounts' = Append(amounts, amount)
               /\ UNCHANGED <<contractVars, ledgerVars, historyVars>>
          ELSE failed(c)

\* releaseFundsRequest while the log has room for one more entry.
map_releaseFundsRequest(accountState, accountWitness, amount, signed) ==
    /\ Len(actions) < MaxActions
    /\ map_releaseFundsRequest_method(accountState, accountWitness, amount, signed)

\* Faulty variant of map_releasedAccountState: the balance is not reduced.
map_releasedAccountState_sameBalance(action) == [action EXCEPT !.released = 0]

\* processReleaseFundsRequest: the new account state, the balance reduced by
\* the released amount and the released amount reset.
map_releasedAccountState(action) ==
    [action EXCEPT !.balance = action.balance - action.released,
                   !.released = 0]

\* The assertions of processReleaseFundsRequest (this.send needs the funds,
\* UInt64.sub a result >= 0).
map_processRelease_asserts(accountState, accountWitness) ==
    /\ accountsRoot = calculateRoot(accountWitness, map_hash(accountState))
    /\ map_getCurrentAction.action.actionOrigin = releaseFundsRequestMethodID
    /\ map_getCurrentAction.action.released <= zkAppBalance
    /\ map_getCurrentAction.action.released <= map_getCurrentAction.action.balance

map_processReleaseFundsRequest(accountState, accountWitness) ==
    LET c == call("processReleaseFundsRequest", emptyPublicKey,
                  reconstructs(accountWitness, map_hash(accountState)), TRUE, TRUE)
    IN IF map_processRelease_asserts(accountState, accountWitness)
       THEN LET action == map_getCurrentAction.action
                newAccountState == map_releasedAccountState(action)
            IN /\ zkAppBalance' = zkAppBalance - action.released
               /\ received' = [received EXCEPT ![serviceProviderAddress] =
                                                  @ + action.released]
               /\ advance(c, action, accountWitness, map_hash(newAccountState),
                          map_releaseLeaf(entryAtTurn))
               /\ UNCHANGED accountNumber
       ELSE failed(c)

\* Faulty variant of map_addFundsRequest_asserts: the account state and the
\* witness are not checked against the root.
map_addFundsRequest_asserts_noRoot(accountState, accountWitness, amount, signed) ==
    signed

\* Faulty variant of map_addFundsRequest_asserts: no signature is required.
map_addFundsRequest_asserts_unsigned(accountState, accountWitness, amount, signed) ==
    accountsRoot = calculateRoot(accountWitness, map_hash(accountState))

\* The assertions of addFundsRequest: the transfer of amount out of the
\* account of accountState.publicKey needs its signature.
map_addFundsRequest_asserts(accountState, accountWitness, amount, signed) ==
    /\ accountsRoot = calculateRoot(accountWitness, map_hash(accountState))
    /\ signed

\* Faulty variant of map_fundedAccountState: the amount is not added to the
\* balance.
map_fundedAccountState_sameBalance(accountState, amount) ==
    [accountState EXCEPT !.actionOrigin = addFundsRequestMethodID]

\* addFundsRequest: the account state dispatched, a copy of the supplied one
\* with the add-funds tag and the balance after the deposit.
map_fundedAccountState(accountState, amount) ==
    [accountState EXCEPT !.actionOrigin = addFundsRequestMethodID,
                         !.balance = accountState.balance + amount]

map_addFundsRequest_method(accountState, accountWitness, amount, signed) ==
    LET c == call("addFundsRequest", emptyPublicKey,
                  reconstructs(accountWitness, map_hash(accountState)), signed, TRUE)
    IN IF map_addFundsRequest_asserts(accountState, accountWitness, amount, signed)
          THEN /\ zkAppBalance' = zkAppBalance + amount
               /\ actions' = dispatch(map_fundedAccountState(accountState, amount))
               /\ last' = c
               /\ amounts' = Append(amounts, amount)
               /\ UNCHANGED <<contractVars, received, historyVars>>
          ELSE failed(c)

\* addFundsRequest while the log has room for one more entry.
map_addFundsRequest(accountState, accountWitness, amount, signed) ==
    /\ Len(actions) < MaxActions
    /\ map_addFundsRequest_method(accountState, accountWitness, amount, signed)

\* Faulty variant of map_processAddFunds_asserts: the tag of the action is not checked.
map_processAddFunds_asserts_noTag(accountState, accountWitness) ==
    accountsRoot = calculateRoot(accountWitness, map_hash(accountState))

\* Faulty variant of map_processAddFunds_asserts: the account state and the
\* witness are not checked against the root.
map_processAddFunds_asserts_noRoot(accountState, accountWitness) ==
    map_getCurrentAction.action.actionOrigin = addFundsRequestMethodID

\* The assertions of processAddFundsRequest.
map_processAddFunds_asserts(accountState, accountWitness) ==
    /\ accountsRoot = calculateRoot(accountWitness, map_hash(accountState))
    /\ map_getCurrentAction.action.actionOrigin = addFundsRequestMethodID

map_processAddFundsRequest(accountState, accountWitness) ==
    LET c == call("processAddFundsRequest", emptyPublicKey,
                  reconstructs(accountWitness, map_hash(accountState)), TRUE, TRUE)
    IN IF map_processAddFunds_asserts(accountState, accountWitness)
       THEN LET action == map_getCurrentAction.action
                newAccountState == action
            IN /\ advance(c, action, accountWitness, map_hash(newAccountState),
                          map_entryLeaf(entryAtTurn))
               /\ UNCHANGED <<accountNumber, ledgerVars>>
       ELSE failed(c)

NextMap ==
    \/ \E publicKey \in PublicKeys, signed \in BOOLEAN :
          map_requestSignUp(publicKey, signed)
    \/ setRangeOfActionsToBeProcessed
    \/ \E w \in Witnesses : map_processSignUpRequestAction(w)
    \/ \E a \in map_RequestStates, w \in Witnesses, signed \in BOOLEAN :
          \E amount \in Amounts \cup {a.balance + 1} :
             map_releaseFundsRequest(a, w, amount, signed)
    \/ \E a \in map_AccountStates, w \in Witnesses :
          map_processReleaseFundsRequest(a, w)
    \/ \E a \in map_RequestStates, w \in Witnesses, amount \in Amounts,
          signed \in BOOLEAN : map_addFundsRequest(a, w, amount, signed)
    \/ \E a \in map_AccountStates, w \in Witnesses :
          map_processAddFundsRequest(a, w)

SpecMap == map_deploy /\ [][NextMap]_vars

\* ================================================= replay-tolerant variant
\* Tags of the three request methods; the sign-up tag is the tag of the state
\* the fold of getCurrentAction starts from.
signUpRequestID == 0
addFundsRequestID == 1
releaseFundsRequestID == 2

\* Successful settlements a behaviour may hold: one more than the log can hold
\* entries, processSignUpRequest being able to succeed without an entry.
MaxSettled == MaxActions + 1

\* deploy : this variant has no accountNumber state; the variable stays 0.
replay_deploy ==
    /\ actions = <<>>
    /\ accountNumber = 0
    /\ numberOfPendingActions = 0
    /\ actionTurn = 0
    /\ startOfActionsRange = initialActionsHash
    /\ endOfActionsRange = initialActionsHash
    /\ accountsRoot = root
    /\ zkAppBalance = 0
    /\ received = [p \in {serviceProviderAddress} |-> 0]
    /\ staleRoot = root
    /\ settled = <<>>
    /\ tree = emptyTree
    /\ amounts = <<>>
    /\ last = call("deploy", emptyPublicKey, TRUE, TRUE, TRUE)

\* The assertions of signUpRequest: the witness proves an empty leaf of the
\* committed tree; publicKey signed.
signUpRequest_asserts(publicKey, accountWitness, signed) ==
    /\ accountsRoot = calculateRoot(accountWitness, emptyLeaf)
    /\ signed

signUpRequest(publicKey, accountWitness, signed) ==
    LET c == call("signUpRequest", publicKey,
                  reconstructs(accountWitness, emptyLeaf), signed, TRUE)
    IN /\ Len(actions) < MaxActions
       /\ IF signUpRequest_asserts(publicKey, accountWitness, signed)
          THEN /\ actions' = dispatch([publicKey |-> publicKey,
                                       balance |-> 0,
                                       actionOrigin |-> signUpRequestID,
                                       released |-> 0])
               /\ last' = c
               /\ amounts' = Append(amounts, 0)
               /\ UNCHANGED <<contractVars, ledgerVars, historyVars>>
          ELSE failed(c)

\* The assertions of addFundsRequest: the transfer of amount out of the
\* account of accountState.publicKey needs its signature.
replay_addFundsRequest_asserts(accountState, accountWitness, amount, signed) ==
    /\ accountsRoot = calculateRoot(accountWitness, map_hash(accountState))
    /\ signed

replay_addFundsRequest(accountState, accountWitness, amount, signed) ==
    LET c == call("addFundsRequest", emptyPublicKey,
                  reconstructs(accountWitness, map_hash(accountState)), signed, TRUE)
    IN /\ Len(actions) < MaxActions
       /\ IF replay_addFundsRequest_asserts(accountState, accountWitness,
                                            amount, signed)
          THEN /\ zkAppBalance' = zkAppBalance + amount
               /\ actions' = dispatch(
                     [accountState EXCEPT !.actionOrigin = addFundsRequestID,
                                          !.balance = accountState.balance + amount])
               /\ last' = c
               /\ amounts' = Append(amounts, amount)
               /\ UNCHANGED <<contractVars, received, historyVars>>
          ELSE failed(c)

\* The assertions of releaseFundsRequest.
replay_releaseFundsRequest_asserts(accountState, accountWitness, amount, signed) ==
    /\ accountsRoot = calculateRoot(accountWitness, map_hash(accountState))
    /\ amount <= accountState.balance
    /\ signed

replay_releaseFundsRequest(accountState, accountWitness, amount, signed) ==
    LET c == call("releaseFundsRequest", emptyPublicKey,
                  reconstructs(accountWitness, map_hash(accountState)), signed,
                  amount <= accountState.balance)
    IN /\ Len(actions) < MaxActions
       /\ IF replay_releaseFundsRequest_asserts(accountState, accountWitness,
                                                amount, signed)
          THEN /\ actions' = dispatch(
                     [accountState EXCEPT !.actionOrigin = releaseFundsRequestID,
                                          !.released = amount])
               /\ last' = c
               /\ amounts' = Append(amounts, amount)
               /\ UNCHANGED <<contractVars, ledgerVars, historyVars>>
          ELSE failed(c)

\* getCurrentAction : the fold starts from an account of the empty key with
\* actionOrigin UInt32.from(0).
replay_getCurrentAction ==
    [action |-> reduce(getActionsBetween(startOfActionsRange, endOfActionsRange),
                       [name |-> "map_selectCurrent"],
                       [state |-> [index |-> 0, action |-> map_noAction],
                        actionsHash |-> startOfActionsRange]).state.action,
     startOfActionsRange |-> startOfActionsRange,
     endOfActionsRange |-> endOfActionsRange,
     actionTurn |-> actionTurn]

\* processSignUpRequest: the identity counts as signed up when the witness,
\* with the empty leaf, does not reconstruct the committed root.
isSignedUp(accountWitness) ==
    ~(accountsRoot = calculateRoot(accountWitness, emptyLeaf))

\* The assertion of processSignUpRequest.
processSignUpRequest_asserts(accountWitness) ==
    replay_getCurrentAction.action.actionOrigin = signUpRequestID

\* processSignUpRequest: the root written, the committed one for an identity
\* that counts as signed up and the one holding the new record otherwise.
chosenRoot(accountWitness, initialAccountState) ==
    Circuit_if(isSignedUp(accountWitness), accountsRoot,
               calculateRoot(accountWitness, map_hash(initialAccountState)))

processSignUpRequest(accountWitness) ==
    LET c == call("processSignUpRequest", emptyPublicKey,
                  reconstructs(accountWitness, emptyLeaf), TRUE, TRUE)
    IN /\ Len(settled) < MaxSettled
       /\ IF processSignUpRequest_asserts(accountWitness)
          THEN LET action == replay_getCurrentAction.action
                   initialAccountState == action
               IN /\ accountsRoot' = chosenRoot(accountWitness, initialAccountState)
                  /\ actionTurn' = FieldAdd(actionTurn, 1)
                  /\ numberOfPendingActions' = FieldSub(numberOfPendingActions, 1)
                  /\ staleRoot' = accountsRoot
                  /\ settled' = Append(settled, action)
                  /\ tree' = IF actionTurn < rangeLength
                             THEN [tree EXCEPT ![calculateIndex(accountWitness)] =
                                                  map_entryLeaf(entryAtTurn)]
                             ELSE tree
                  /\ last' = c
                  /\ UNCHANGED <<actions, amounts, startOfActionsRange,
                                 endOfActionsRange, accountNumber, ledgerVars>>
          ELSE failed(c)

\* The assertions of processAddFundsRequest.
replay_processAddFunds_asserts(accountState, accountWitness) ==
    /\ accountsRoot = calculateRoot(accountWitness, map_hash(accountState))
    /\ replay_getCurrentAction.action.actionOrigin = addFundsRequestID

replay_processAddFundsRequest(accountState, accountWitness) ==
    LET c == call("processAddFundsRequest", emptyPublicKey,
                  reconstructs(accountWitness, map_hash(accountState)), TRUE, TRUE)
    IN IF replay_processAddFunds_asserts(accountState, accountWitness)
       THEN LET action == replay_getCurrentAction.action
                newAccountState == action
            IN /\ advance(c, action, accountWitness, map_hash(newAccountState),
                          map_entryLeaf(entryAtTurn))
               /\ UNCHANGED <<accountNumber, ledgerVars>>
       ELSE failed(c)

\* The assertions of processReleaseFundsRequest (this.send needs the funds,
\* UInt64.sub a result >= 0).
replay_processRelease_asserts(accountState, accountWitness) ==
    /\ accountsRoot = calculateRoot(accountWitness, map_hash(accountState))
    /\ replay_getCurrentAction.action.actionOrigin = releaseFundsRequestID
    /\ replay_getCurrentAction.action.released <= zkAppBalance
    /\ replay_getCurrentAction.action.released
          <= replay_getCurrentAction.action.balance

replay_processReleaseFundsRequest(accountState, accountWitness) ==
    LET c == call("processReleaseFundsRequest", emptyPublicKey,
                  reconstructs(accountWitness, map_hash(accountState)), TRUE, TRUE)
    IN IF replay_processRelease_asserts(accountState, accountWitness)
       THEN LET action == replay_getCurrentAction.action
                newAccountState == map_releasedAccountState(action)
            IN /\ zkAppBalance' = zkAppBalance - action.released
               /\ received' = [received EXCEPT ![serviceProviderAddress] =
                                                  @ + action.released]
               /\ advance(c, action, accountWitness, map_hash(newAccountState),
                          map_releaseLeaf(entryAtTurn))
               /\ UNCHANGED accountNumber
       ELSE failed(c)

NextReplay ==
    \/ \E publicKey \in PublicKeys, w \in Witnesses, signed \in BOOLEAN :
          signUpRequest(publicKey, w, signed)
    \/ setRangeOfActionsToBeProcessed
    \/ \E w \in Witnesses : processSignUpRequest(w)
    \/ \E a \in map_AccountStates, w \in Witnesses, amount \in Amounts,
          signed \in BOOLEAN : replay_addFundsRequest(a, w, amount, signed)
    \/ \E a \in map_AccountStates, w \in Witnesses :
          replay_processAddFundsRequest(a, w)
    \/ \E a \in map_AccountStates, w \in Witnesses, signed \in BOOLEAN :
          \E amount \in Amounts \cup {a.balance + 1} :
             replay_releaseFundsRequest(a, w, amount, signed)
    \/ \E a \in map_AccountStates, w \in Witnesses :
          replay_processReleaseFundsRequest(a, w)

SpecReplay == replay_deploy /\ [][NextReplay]_vars

\* The sign-up flow of this variant on its own: sign-up requests, the opening
\* of ranges and the settlement of sign-ups.
NextReplaySignUp ==
    \/ \E publicKey \in PublicKeys, w \in Witnesses, signed \in BOOLEAN :
          signUpRequest(publicKey, w, signed)
    \/ setRangeOfActionsToBeProcessed
    \/ \E w \in Witnesses : processSignUpRequest(w)

SpecReplaySignUp == replay_deploy /\ [][NextReplaySignUp]_vars

\* ====================================================== accumulator variant
\* src/src/AccountManagement.ts:346-538 : requestSignUp assigns the account
\* number, and processSignUpRequestAction accumulates the new root inside its
\* fold over the frozen range.  The Account of this variant has a publicKey
\* and an accountNumber only; accountsRoot is a Field the fold adds roots to.

\* Leaf positions in use: the accountNumber counter starts at 0.
acc_Indices == 0 .. NumUsers - 1
\* new MerkleTree(21) of the operator.
acc_emptyTree == [i \in acc_Indices |-> emptyLeaf]

acc_deploy ==
    /\ actions = <<>>
    /\ accountNumber = 0
    /\ numberOfPendingActions = 0
    /\ actionTurn = 0
    /\ startOfActionsRange = initialActionsHash
    /\ endOfActionsRange = initialActionsHash
    /\ accountsRoot = EmptyBag
    /\ zkAppBalance = 0
    /\ received = [p \in {serviceProviderAddress} |-> 0]
    /\ staleRoot = EmptyBag
    /\ settled = <<>>
    /\ tree = acc_emptyTree
    /\ amounts = <<>>
    /\ last = call("deploy", emptyPublicKey, TRUE, TRUE, TRUE)

\* The assertions of requestSignUp: publicKey signed; no entry of the log
\* carries publicKey.
acc_requestSignUp_asserts(publicKey, signed) ==
    /\ signed
    /\ exists(publicKey) = FALSE

acc_requestSignUp(publicKey, signed) ==
    LET c == call("requestSignUp", publicKey, TRUE, signed, TRUE)
    IN /\ Len(actions) < MaxActions
       /\ IF acc_requestSignUp_asserts(publicKey, signed)
          THEN /\ actions' = dispatch([publicKey |-> publicKey,
                                       accountNumber |-> accountNumber])
               /\ accountNumber' = FieldAdd(accountNumber, 1)
               /\ last' = c
               /\ amounts' = Append(amounts, 0)
               /\ UNCHANGED <<rangeVars, ledgerVars, historyVars>>
          ELSE failed(c)

\* The fold of processSignUpRequestAction over the frozen range.
processedAction(accountWitness) ==
    reduce(getActionsBetween(startOfActionsRange, endOfActionsRange),
           [name |-> "foldAccountsRoot", actionTurn |-> actionTurn,
            accountWitness |-> accountWitness],
           [state |-> [index |-> 0, accountsRoot |-> EmptyBag],
            actionsHash |-> startOfActionsRange]).state

\* processSignUpRequestAction : the method asserts nothing about its witness
\* or about the turn.  (History: the entry at the turn if there is one, and
\* the leaf the operator sets for it at the position of its witness.)
acc_processSignUpRequestAction(accountWitness) ==
    /\ Len(settled) < MaxSettled
    /\ actionTurn' = FieldAdd(actionTurn, 1)
    /\ accountsRoot' = processedAction(accountWitness).accountsRoot
    /\ numberOfPendingActions' = FieldSub(numberOfPendingActions, 1)
    /\ staleRoot' = accountsRoot
    /\ settled' = Append(settled,
                         IF actionTurn < rangeLength
                         THEN entryAtTurn
                         ELSE [publicKey |-> emptyPublicKey, accountNumber |-> 0])
    /\ tree' = IF actionTurn < rangeLength
               THEN [tree EXCEPT ![calculateIndex(accountWitness)] =
                                    acc_hash(entryAtTurn)]
               ELSE tree
    /\ last' = call("processSignUpRequestAction", emptyPublicKey, TRUE, TRUE, TRUE)
    /\ UNCHANGED <<actions, amounts, startOfActionsRange, endOfActionsRange,
                   accountNumber, ledgerVars>>

NextAccumulated ==
    \/ \E publicKey \in PublicKeys, signed \in BOOLEAN :
          acc_requestSignUp(publicKey, signed)
    \/ setRangeOfActionsToBeProcessed
    \/ \E i \in acc_Indices : acc_processSignUpRequestAction(getWitness(tree, i))

SpecAccumulated == acc_deploy /\ [][NextAccumulated]_vars

\* ================================================================= claims
\* The settlement handlers, and the tag each expects of the current entry.
settlementOps == {"processSignUpRequestAction", "processReleaseFundsRequest",
                  "processAddFundsRequest"}
expectedTag(op) ==
    CASE op = "processSignUpRequestAction" -> signUpMethodID
      [] op = "processReleaseFundsRequest" -> releaseFundsRequestMethodID
      [] op = "processAddFundsRequest" -> addFundsRequestMethodID

\* C1: the actions settlements have applied are, in order, exactly the log
\* entries up to the current turn of the current range: the k-th successful
\* settlement of a range applies its k-th entry, and no entry is settled
\* twice or skipped, within a range or across ranges.
C1_SettledInLogOrder ==
    settled = SubSeq(actions, 1, rangeStart + actionTurn)

\* Two ranges were opened, and a settlement of the second one has succeeded.
C1_Witness ==
    /\ rangeStart >= 1
    /\ actionTurn >= 1
    /\ Len(settled) >= 2
    /\ last.op \in settlementOps /\ last.ok

\* C2: setRangeOfActionsToBeProcessed fails whenever numberOfPendingActions
\* is not 0, leaving the range cursors, the count, the turn and the root
\* unchanged; called with numberOfPendingActions = 0 it succeeds.
C2_OpenRangeNeedsDrainedRange ==
    [][last'.op = "setRangeOfActionsToBeProcessed" =>
         /\ numberOfPendingActions # 0 =>
               /\ ~last'.ok
               /\ UNCHANGED <<startOfActionsRange, endOfActionsRange,
                              numberOfPendingActions, actionTurn, accountsRoot>>
         /\ numberOfPendingActions = 0 => last'.ok]_vars

\* A second setRangeOfActionsToBeProcessed was rejected while actions were pending.
C2_Witness ==
    /\ last.op = "setRangeOfActionsToBeProcessed"
    /\ ~last.ok
    /\ numberOfPendingActions # 0

\* C3: a successful setRangeOfActionsToBeProcessed sets numberOfPendingActions
\* to the number of entries appended since the previous endOfActionsRange,
\* endOfActionsRange to the head of the log, startOfActionsRange to the
\* previous endOfActionsRange, and actionTurn to 0.
C3_OpenRangeFreezesNewEntries ==
    [][(last'.op = "setRangeOfActionsToBeProcessed" /\ last'.ok) =>
         /\ numberOfPendingActions' = Len(actions) - rangeEnd
         /\ endOfActionsRange' = actionsHashOf(actions, Len(actions))
         /\ startOfActionsRange' = endOfActionsRange
         /\ actionTurn' = 0]_vars

\* A second range was opened over two entries appended after the first range.
C3_Witness ==
    /\ last.op = "setRangeOfActionsToBeProcessed" /\ last.ok
    /\ rangeStart = 1
    /\ numberOfPendingActions = 2
    /\ rangeEnd = Len(actions)

\* C4: while the entry at the current turn carries one tag, a settlement
\* handler that expects another fails and leaves the root, the turn, the
\* count and the range cursors unchanged.
C4_WrongHandlerRejected ==
    [][(/\ last'.op \in settlementOps
        /\ actionTurn < rangeLength
        /\ entryAtTurn.actionOrigin # expectedTag(last'.op)) =>
         /\ ~last'.ok
         /\ UNCHANGED <<accountsRoot, actionTurn, numberOfPendingActions,
                        startOfActionsRange, endOfActionsRange>>]_vars

\* processAddFundsRequest was called with a committed account state and its
\* witness while the current entry is a sign-up request, and failed.
C4_Witness ==
    /\ last.op = "processAddFundsRequest"
    /\ ~last.ok
    /\ last.rootOk
    /\ actionTurn < rangeLength
    /\ entryAtTurn.actionOrigin = signUpMethodID

\* C5: a successful settlement increases actionTurn by exactly 1 and
\* decreases numberOfPendingActions by exactly 1, so the settlement that
\* reaches the end of a range of N entries leaves numberOfPendingActions = 0
\* and actionTurn = N.
C5_SettlementAdvancesByOne ==
    [][(last'.op \in settlementOps /\ last'.ok) =>
         /\ actionTurn' = actionTurn + 1
         /\ numberOfPendingActions' = numberOfPendingActions - 1
         /\ actionTurn' = rangeLength => numberOfPendingActions' = 0]_vars

\* A range of two entries was settled to its end.
C5_Witness ==
    /\ last.op \in settlementOps /\ last.ok
    /\ rangeLength = 2
    /\ actionTurn = 2
    /\ numberOfPendingActions = 0

\* C6 as stated: the count and the turn are never negative and the turn never
\* exceeds the count of pending actions.
C6_TurnWithinPending ==
    /\ numberOfPendingActions \in 0 .. Len(actions)
    /\ actionTurn \in 0 .. Len(actions)
    /\ actionTurn <= numberOfPendingActions

\* C6, amended: the count and the turn are never negative (never wrap around
\* the field) and the turn never exceeds the number of entries frozen in the
\* current range, which is the turn plus the count of pending actions.
C6_TurnWithinRange ==
    /\ numberOfPendingActions \in 0 .. Len(actions)
    /\ actionTurn \in 0 .. Len(actions)
    /\ actionTurn <= rangeLength
    /\ rangeLength = actionTurn + numberOfPendingActions

\* A range of two entries is drained: the turn exceeds the pending count.
C6_Witness ==
    /\ rangeLength = 2
    /\ actionTurn = 2
    /\ numberOfPendingActions = 0

\* C7: the committed root is the root of the tree an operator builds on its
\* own by setting, for each settlement in order, the leaf computed from the
\* entry read by index at the position of the witness it used; in particular
\* once a range is drained, and over successive ranges.
C7_RootMatchesOperatorTree == accountsRoot = tree

\* Two ranges were drained, the second leaving two accounts in the tree.
C7_Witness ==
    /\ rangeStart >= 1
    /\ actionTurn >= 1
    /\ numberOfPendingActions = 0
    /\ Cardinality({i \in Indices : accountsRoot[i] # emptyLeaf}) = 2
    /\ accountsRoot # staleRoot

\* Entries of the log that are sign-up requests of publicKey.
signUpsOf(log, publicKey) ==
    {n \in 1 .. Len(log) : /\ log[n].publicKey = publicKey
                           /\ log[n].actionOrigin = signUpMethodID}

\* C8: requestSignUp of an identity that any entry of the log carries fails
\* and dispatches nothing, so the log never holds two sign-up entries of one
\* identity.
C8_NoDuplicateSignUp ==
    [][/\ (/\ last'.op = "requestSignUp"
           /\ \E n \in 1 .. Len(actions) : actions[n].publicKey = last'.publicKey)
          => (~last'.ok /\ actions' = actions)
       /\ \A publicKey \in PublicKeys :
             Cardinality(signUpsOf(actions', publicKey)) <= 1]_vars

\* A signed requestSignUp failed for an identity whose latest entry is a release
\* request, its sign-up being settled in an earlier range.
C8_Witness ==
    /\ last.op = "requestSignUp"
    /\ ~last.ok
    /\ last.signed
    /\ rangeStart >= 1
    /\ \E n \in 1 .. Len(actions) :
          /\ actions[n].publicKey = last.publicKey
          /\ actions[n].actionOrigin = releaseFundsRequestMethodID

\* C9: at most one leaf of the committed tree holds a record of a given
\* identity.
C9_OneLeafPerIdentity ==
    \A i, j \in Indices :
       (/\ accountsRoot[i] # emptyLeaf
        /\ accountsRoot[j] # emptyLeaf
        /\ map_accountOf(accountsRoot[i]).publicKey =
              map_accountOf(accountsRoot[j]).publicKey) => i = j

\* C10: a settlement call whose witness, with the account state supplied
\* (the empty leaf for a sign-up), does not reconstruct the committed root
\* fails and changes nothing of the contract, the log or the ledger.
C10_BadWitnessRejected ==
    [][(last'.op \in settlementOps /\ ~last'.rootOk) =>
         /\ ~last'.ok
         /\ UNCHANGED <<actions, contractVars, ledgerVars>>]_vars

\* processSignUpRequestAction failed on a witness that does not reconstruct the
\* root, after an earlier settlement changed the root, while the current entry
\* is a sign-up request.
C10_Witness ==
    /\ last.op = "processSignUpRequestAction"
    /\ ~last.ok
    /\ ~last.rootOk
    /\ accountsRoot # staleRoot
    /\ actionTurn < rangeLength
    /\ entryAtTurn.actionOrigin = signUpMethodID

\* C11: processSignUpRequestAction succeeds only with a witness that proves the
\* empty leaf at its key under the committed root; a successful sign-up
\* settlement fills one leaf that was empty and changes no leaf that held a
\* record.
C11_SignUpFillsEmptyLeaf ==
    [][(last'.op = "processSignUpRequestAction" /\ last'.ok) =>
         /\ last'.rootOk
         /\ \E i \in Indices :
               /\ accountsRoot[i] = emptyLeaf
               /\ accountsRoot'[i] # emptyLeaf
               /\ \A j \in Indices \ {i} : accountsRoot'[j] = accountsRoot[j]]_vars

\* A sign-up settlement succeeded on a tree that already held a record, which
\* is still there.
C11_Witness ==
    /\ last.op = "processSignUpRequestAction" /\ last.ok
    /\ leavesOf(staleRoot) # {}
    /\ leavesOf(staleRoot) \subseteq leavesOf(accountsRoot)
    /\ Cardinality(leavesOf(accountsRoot)) = 2

\* The keys of tree t whose leaf holds a record of publicKey (MerkleMap variant).
map_keysOf(t, publicKey) ==
    {i \in Indices : /\ t[i] # emptyLeaf
                     /\ map_accountOf(t[i]).publicKey = publicKey}

\* Position in the log of the entry at the current turn.
turnPosition == rangeStart + actionTurn + 1

\* C12: a successful processAddFundsRequest that writes the leaf of the settled
\* identity (the one leaf holding its record; every other leaf unchanged)
\* leaves there the balance committed before the call plus the amount that the
\* add-funds request being settled deposited.
C12_AddFundsAddsDeposit ==
    [][(last'.op = "processAddFundsRequest" /\ last'.ok) =>
         \A i \in Indices :
            (/\ map_keysOf(accountsRoot, entryAtTurn.publicKey) = {i}
             /\ \A j \in Indices \ {i} : accountsRoot'[j] = accountsRoot[j])
            => map_accountOf(accountsRoot'[i]).balance =
                  map_accountOf(accountsRoot[i]).balance + amounts[turnPosition]]_vars

\* The leaves of tree t that hold a record of publicKey (MerkleTree variant).
keysOf(t, publicKey) ==
    {i \in Indices : /\ t[i] # emptyLeaf
                     /\ accountOf(t[i]).publicKey = publicKey}

\* C13: a successful processReleaseFundsRequest that writes the leaf of the
\* settled identity leaves there the balance committed before the call minus
\* the entry's released amount and a released amount of 0, and moves exactly
\* the released amount from the contract to the provider the entry records.
C13_ReleaseSubtractsReleased ==
    [][(last'.op = "processReleaseFundsRequest" /\ last'.ok) =>
         \A i \in Indices :
            (/\ keysOf(accountsRoot, entryAtTurn.publicKey) = {i}
             /\ \A j \in Indices \ {i} : accountsRoot'[j] = accountsRoot[j])
            => /\ accountOf(accountsRoot'[i]).balance =
                     accountOf(accountsRoot[i]).balance - entryAtTurn.released
               /\ accountOf(accountsRoot'[i]).released = 0
               /\ zkAppBalance' = zkAppBalance - entryAtTurn.released
               /\ received' = [received EXCEPT ![entryAtTurn.provider] =
                                                  @ + entryAtTurn.released]]_vars

\* The balance of the committed state a request entry was built on: an
\* add-funds entry carries that balance plus the amount added, a release entry
\* carries it as it was.
map_baseBalance(n) ==
    IF actions[n].actionOrigin = addFundsRequestMethodID
    THEN actions[n].balance - amounts[n]
    ELSE actions[n].balance

\* The balance the settlement of entry n commits.
map_resultBalance(n) ==
    IF actions[n].actionOrigin = releaseFundsRequestMethodID
    THEN actions[n].balance - actions[n].released
    ELSE actions[n].balance

RECURSIVE sumAmounts(_, _)
\* The sum of the amounts of the first n log entries whose tag is in tags.
sumAmounts(n, tags) ==
    IF n = 0 THEN 0
    ELSE sumAmounts(n - 1, tags)
         + (IF actions[n].actionOrigin \in tags THEN amounts[n] ELSE 0)

\* Every entry of the log is a request of publicKey, each request after the
\* sign-up was built on the state the settlement of the previous one commits,
\* and all of them are settled.
oneAtATime(publicKey) ==
    /\ Len(actions) >= 1
    /\ \A n \in 1 .. Len(actions) : actions[n].publicKey = publicKey
    /\ \A n \in 2 .. Len(actions) : map_baseBalance(n) = map_resultBalance(n - 1)
    /\ Len(settled) = Len(actions)

\* C14: for an identity whose requests were issued and settled one at a time,
\* the committed balance is the sum of its deposits (sign-up and added funds)
\* minus the sum of its releases, and the service provider has received
\* exactly the sum of the releases.
C14_BalanceConservation ==
    \A publicKey \in PublicKeys :
       oneAtATime(publicKey) =>
          /\ \E i \in Indices :
                /\ map_keysOf(accountsRoot, publicKey) = {i}
                /\ map_accountOf(accountsRoot[i]).balance =
                      sumAmounts(Len(actions), {signUpMethodID, addFundsRequestMethodID})
                      - sumAmounts(Len(actions), {releaseFundsRequestMethodID})
          /\ received[serviceProviderAddress] =
                sumAmounts(Len(actions), {releaseFundsRequestMethodID})

\* Sign-up with 5, add 1, release 1, each settled before the next request:
\* the committed balance is 5 and the provider has received 1.
C14_Witness ==
    /\ \E publicKey \in PublicKeys : oneAtATime(publicKey)
    /\ [n \in 1 .. Len(actions) |-> actions[n].actionOrigin] =
          <<signUpMethodID, addFundsRequestMethodID, releaseFundsRequestMethodID>>
    /\ amounts = <<initialBalance, 1, 1>>
    /\ received[serviceProviderAddress] = 1
    /\ \E i \in Indices : /\ accountsRoot[i] # emptyLeaf
                          /\ map_accountOf(accountsRoot[i]).balance = initialBalance

\* C15: releaseFundsRequest with an amount greater than the balance of the
\* supplied account state fails: no entry is dispatched, and the contract
\* state and the ledger are unchanged.
C15_ReleaseOverBalanceRejected ==
    [][(last'.op = "releaseFundsRequest" /\ ~last'.amountOk) =>
         /\ ~last'.ok
         /\ actions' = actions
         /\ Len(actions') = Len(actions)
         /\ UNCHANGED <<contractVars, ledgerVars>>]_vars

\* A signed releaseFundsRequest built on a committed state and its witness
\* failed because it asked for more than the balance.
C15_Witness ==
    /\ last.op = "releaseFundsRequest"
    /\ ~last.ok
    /\ ~last.amountOk
    /\ last.rootOk
    /\ last.signed

requestOps == {"requestSignUp", "releaseFundsRequest", "addFundsRequest"}

\* C17: a successful request call, whatever the state of the range, appends
\* its entry past endOfActionsRange and leaves startOfActionsRange,
\* endOfActionsRange, numberOfPendingActions, actionTurn and accountsRoot
\* unchanged, and getCurrentAction returns after it what it returned before;
\* and no request is refused because a range is open: a signed requestSignUp
\* of an identity not in the log, and a signed releaseFundsRequest within the
\* balance of a committed state, succeed.
C17_RequestsLeaveRangeAlone ==
    [][/\ (last'.op \in requestOps /\ last'.ok) =>
             /\ UNCHANGED <<startOfActionsRange, endOfActionsRange,
                            numberOfPendingActions, actionTurn, accountsRoot>>
             /\ getCurrentAction' = getCurrentAction
             /\ Len(actions') = Len(actions) + 1
             /\ SubSeq(actions', 1, Len(actions)) = actions
             /\ cursorIndex(actions', endOfActionsRange') < Len(actions')
       /\ (/\ last'.op = "requestSignUp"
           /\ last'.signed
           /\ \A n \in 1 .. Len(actions) : actions[n].publicKey # last'.publicKey)
             => last'.ok
       /\ (/\ last'.op = "releaseFundsRequest"
           /\ last'.rootOk /\ last'.signed /\ last'.amountOk)
             => last'.ok]_vars

\* A release request was dispatched between two settlements of an open range.
C17_Witness ==
    /\ last.op = "releaseFundsRequest" /\ last.ok
    /\ actionTurn = 1
    /\ numberOfPendingActions = 1
    /\ rangeEnd < Len(actions)

\* C18: when the frozen range is empty or drained (the turn equals the number
\* of entries frozen), every settlement call fails and changes nothing; the
\* turn never passes the number of entries frozen.
C18_DrainedRangeRejectsSettlement ==
    [][/\ (last'.op \in settlementOps /\ actionTurn = rangeLength) =>
             /\ ~last'.ok
             /\ UNCHANGED <<actions, contractVars, ledgerVars>>
       /\ actionTurn' <= cursorIndex(actions', endOfActionsRange')
                         - cursorIndex(actions', startOfActionsRange')]_vars

\* A settlement call with a witness that reconstructs the root failed on a
\* range of two entries that was already drained.
C18_Witness ==
    /\ last.op \in settlementOps
    /\ ~last.ok
    /\ last.rootOk
    /\ rangeLength = 2
    /\ actionTurn = rangeLength

\* C19: in the variant with signUpRequest / processSignUpRequest, a call of
\* processSignUpRequest while the frozen range is empty leaves
\* numberOfPendingActions, actionTurn, startOfActionsRange, endOfActionsRange
\* and accountsRoot unchanged.
C19_EmptyRangeSignUpChangesNothing ==
    [][(last'.op = "processSignUpRequest" /\ rangeLength = 0) =>
          UNCHANGED <<numberOfPendingActions, actionTurn, startOfActionsRange,
                      endOfActionsRange, accountsRoot>>]_vars

\* C20: in the replay-tolerant variant, a successful processSignUpRequest on
\* a sign-up entry of an identity that already has a committed record leaves
\* accountsRoot unchanged, advances actionTurn by 1 and takes 1 off
\* numberOfPendingActions.
C20_ReplayedSignUpKeepsRoot ==
    [][(/\ last'.op = "processSignUpRequest"
        /\ last'.ok
        /\ actionTurn < rangeLength
        /\ map_keysOf(accountsRoot, entryAtTurn.publicKey) # {}) =>
          /\ accountsRoot' = accountsRoot
          /\ actionTurn' = actionTurn + 1
          /\ numberOfPendingActions' = numberOfPendingActions - 1]_vars

\* C21: in the variant whose signUpRequest takes a witness, a signUpRequest
\* naming an identity that already has a committed record fails and
\* dispatches nothing.
C21_RegisteredSignUpRejected ==
    [][(/\ last'.op = "signUpRequest"
        /\ map_keysOf(accountsRoot, last'.publicKey) # {}) =>
          /\ ~last'.ok
          /\ actions' = actions]_vars

\* C22: addFundsRequest and releaseFundsRequest dispatch an entry only if the
\* supplied account state with the witness reconstructs the current
\* accountsRoot; a request built on a state that is not committed now (never
\* committed, or superseded by a settlement) fails and dispatches nothing.
C22_RequestNeedsCommittedState ==
    [][(last'.op \in {"addFundsRequest", "releaseFundsRequest"}) =>
          /\ last'.ok => last'.rootOk
          /\ ~last'.rootOk =>
                /\ ~last'.ok
                /\ UNCHANGED <<actions, contractVars, ledgerVars>>
          /\ Len(actions') > Len(actions) =>
                \E i \in Indices :
                   /\ accountsRoot[i] # emptyLeaf
                   /\ map_accountOf(accountsRoot[i]).publicKey =
                         actions'[Len(actions')].publicKey]_vars

\* A signed add-funds request within the balance failed because it was built
\* on a state that a settlement had superseded.
C22_Witness ==
    /\ last.op = "addFundsRequest"
    /\ ~last.ok /\ ~last.rootOk /\ last.signed
    /\ staleRoot # accountsRoot
    /\ \E i \in Indices : staleRoot[i] # emptyLeaf /\ staleRoot[i] # accountsRoot[i]

C24_FoldIsIndexedAccess ==
    actionTurn < rangeLength =>
       /\ getCurrentAction.action =
             getActionsBetween(startOfActionsRange, endOfActionsRange)[actionTurn + 1]
       /\ getCurrentAction.action = actions[rangeStart + actionTurn + 1]

\* The turn points at the one entry of a range that has a different entry
\* before it and a different entry after it in the log.
C24_Witness ==
    /\ Len(actions) = 3
    /\ rangeStart = 1
    /\ rangeEnd = 2
    /\ actionTurn = 0
    /\ actions[1] # actions[2]
    /\ actions[3] # actions[2]
    /\ getCurrentAction.action = actions[2]

\* ------------------------------------------ MerkleMap variant: the operator
\* Poseidon.hash(publicKey.toFields()) : the key of the MerkleMap at which the
\* tests keep the record of publicKey (injective; keys and identities are
\* numbered alike).
keyOf(publicKey) == publicKey

\* Whether the turn points at an entry of the frozen range carrying tag.
currentEntryHasTag(tag) ==
    /\ actionTurn < rangeLength
    /\ entryAtTurn.actionOrigin = tag

\* doSetActionsRangeTxn
map_doSetActionsRangeTxn == setRangeOfActionsToBeProcessed

\* processSignUpAction : the operator settles the sign-up entry at the turn
\* with the witness of the key of its identity.
map_processSignUpAction ==
    /\ currentEntryHasTag(signUpMethodID)
    /\ map_processSignUpRequestAction(
          getWitness(accountsRoot, keyOf(entryAtTurn.publicKey)))

\* processReleaseFundsAction : the operator settles the release entry at the
\* turn with the committed state of its identity and the witness of its key.
map_processReleaseFundsAction ==
    /\ currentEntryHasTag(releaseFundsRequestMethodID)
    /\ accountsRoot[keyOf(entryAtTurn.publicKey)] # emptyLeaf
    /\ map_processReleaseFundsRequest(
          map_accountOf(accountsRoot[keyOf(entryAtTurn.publicKey)]),
          getWitness(accountsRoot, keyOf(entryAtTurn.publicKey)))

\* processAddFundsAction
map_processAddFundsAction ==
    /\ currentEntryHasTag(addFundsRequestMethodID)
    /\ accountsRoot[keyOf(entryAtTurn.publicKey)] # emptyLeaf
    /\ map_processAddFundsRequest(
          map_accountOf(accountsRoot[keyOf(entryAtTurn.publicKey)]),
          getWitness(accountsRoot, keyOf(entryAtTurn.publicKey)))

\* What the operator does: open a range, settle the entry at the turn.
map_operator ==
    \/ map_doSetActionsRangeTxn
    \/ map_processSignUpAction
    \/ map_processReleaseFundsAction
    \/ map_processAddFundsAction

\* The users: signed requests built on the committed state of the identity,
\* a release asking for one unit or for the whole balance.
map_users ==
    \/ \E publicKey \in PublicKeys : map_requestSignUp(publicKey, TRUE)
    \/ \E i \in Indices :
          /\ accountsRoot[i] # emptyLeaf
          /\ \E amount \in Amounts \cup {map_accountOf(accountsRoot[i]).balance} :
                map_releaseFundsRequest(map_accountOf(accountsRoot[i]),
                                        getWitness(accountsRoot, i), amount, TRUE)
    \/ \E i \in Indices, amount \in Amounts :
          /\ accountsRoot[i] # emptyLeaf
          /\ map_addFundsRequest(map_accountOf(accountsRoot[i]),
                                 getWitness(accountsRoot, i), amount, TRUE)

NextMapOperated == map_users \/ map_operator

\* The contract with its users and an operator that never stops: none of its
\* four calls stays possible for ever without being made.
SpecMapOperated ==
    /\ map_deploy
    /\ [][NextMapOperated]_vars
    /\ WF_vars(map_doSetActionsRangeTxn)
    /\ WF_vars(map_processSignUpAction)
    /\ WF_vars(map_processReleaseFundsAction)
    /\ WF_vars(map_processAddFundsAction)

\* C25: with an operator that keeps opening ranges and settling the entry at
\* the turn with the committed state and witness of its identity, every open
\* range eventually drains and every dispatched entry is eventually settled.
C25_OpenRangeDrains ==
    /\ (numberOfPendingActions > 0) ~> (numberOfPendingActions = 0)
    /\ \A n \in 1 .. MaxActions : (Len(actions) >= n) ~> (Len(settled) >= n)

\* C26: a key of the ledger that holds a record never returns to the empty
\* leaf; a record appears at an empty key only by a successful sign-up
\* settlement, and the record of a key changes only by a successful add-funds
\* or release-funds settlement.
C26_RecordsNeverDeleted ==
    [][\A i \in Indices :
          /\ accountsRoot[i] # emptyLeaf => accountsRoot'[i] # emptyLeaf
          /\ (accountsRoot[i] = emptyLeaf /\ accountsRoot'[i] # emptyLeaf) =>
                (last'.op = "processSignUpRequestAction" /\ last'.ok)
          /\ (accountsRoot[i] # emptyLeaf /\ accountsRoot'[i] # accountsRoot[i]) =>
                /\ last'.op \in {"processAddFundsRequest",
                                 "processReleaseFundsRequest"}
                /\ last'.ok]_vars

\* A release settlement replaced the record a key held by another record.
C26_Witness ==
    /\ last.op = "processReleaseFundsRequest" /\ last.ok
    /\ \E i \in Indices :
          /\ staleRoot[i] # emptyLeaf
          /\ accountsRoot[i] # emptyLeaf
          /\ accountsRoot[i] # staleRoot[i]

\* C27: the log only grows by appending: a successful request call appends
\* exactly one entry after the existing ones, which keep their values and
\* their order; a failed call, setRangeOfActionsToBeProcessed and the
\* settlement handlers leave the log as it is.
C27_LogAppendOnly ==
    [][/\ \A n \in 1 .. Len(actions) :
             n <= Len(actions') /\ actions'[n] = actions[n]
       /\ (last'.op \in requestOps /\ last'.ok) =>
             Len(actions') = Len(actions) + 1
       /\ ~(last'.op \in requestOps /\ last'.ok) => actions' = actions]_vars

\* A settlement succeeded with three entries in the log, the last of them
\* dispatched after the range was frozen.
C27_Witness ==
    /\ last.op \in settlementOps /\ last.ok
    /\ Len(actions) = 3
    /\ rangeEnd < Len(actions)
    /\ actions[1] # actions[3]

\* The number of sign-up entries settled so far.
registered ==
    Cardinality({n \in 1 .. Len(settled) :
                    settled[n].actionOrigin = signUpMethodID})

\* C28: in the account-number variant a successful processSignUpRequestAction
\* writes at the leaf whose index is the accountNumber counter, and only
\* there, the record of the entry at the turn carrying that number, and adds
\* exactly 1 to the counter; nothing else moves the counter, which starts at
\* 1, so the k-th account registered is given number k and leaf k and no two
\* registrations are given the same number.
C28_SignUpTakesNextNumber ==
    [][/\ (last'.op = "processSignUpRequestAction" /\ last'.ok) =>
             /\ accountNumber \in Indices
             /\ accountsRoot[accountNumber] = emptyLeaf
             /\ accountsRoot'[accountNumber] =
                   hash([entryAtTurn EXCEPT !.accountNumber = accountNumber])
             /\ \A j \in Indices \ {accountNumber} :
                   accountsRoot'[j] = accountsRoot[j]
             /\ accountNumber' = accountNumber + 1
             /\ accountNumber = registered + 1
       /\ accountNumber' # accountNumber =>
             (last'.op = "processSignUpRequestAction" /\ last'.ok)
       /\ accountNumber' = registered' + 1]_vars

\* The second sign-up settlement has just succeeded: leaf 1 holds the record
\* numbered 1, leaf 2 the record numbered 2 of another identity.
C28_Witness ==
    /\ last.op = "processSignUpRequestAction" /\ last.ok
    /\ accountNumber = 3
    /\ accountsRoot[1] # emptyLeaf /\ accountsRoot[2] # emptyLeaf
    /\ accountOf(accountsRoot[1]).accountNumber = 1
    /\ accountOf(accountsRoot[2]).accountNumber = 2
    /\ accountOf(accountsRoot[1]).publicKey # accountOf(accountsRoot[2]).publicKey

\* C29: a successful releaseFundsRequest appends exactly one entry, equal to
\* a committed account state except for the release tag, released = the
\* amount asked for and provider = the provider given, its balance still the
\* committed balance; the root and the funds held are unchanged.
C29_ReleaseRequestEntry ==
    [][(last'.op = "releaseFundsRequest" /\ last'.ok) =>
          /\ Len(actions') = Len(actions) + 1
          /\ SubSeq(actions', 1, Len(actions)) = actions
          /\ \E i \in Indices, provider \in Providers :
                /\ accountsRoot[i] # emptyLeaf
                /\ actions'[Len(actions')] =
                      [accountOf(accountsRoot[i]) EXCEPT
                          !.actionOrigin = releaseFundsRequestMethodID,
                          !.provider = provider,
                          !.released = amounts'[Len(amounts')]]
                /\ actions'[Len(actions')].balance =
                      accountOf(accountsRoot[i]).balance
          /\ UNCHANGED <<accountsRoot, zkAppBalance, received>>]_vars

\* A release request for one unit was dispatched on a committed balance of 5:
\* the entry still carries 5, names the provider, and nothing was paid.
C29_Witness ==
    /\ last.op = "releaseFundsRequest" /\ last.ok
    /\ actions[Len(actions)].released = 1
    /\ actions[Len(actions)].balance = initialBalance
    /\ actions[Len(actions)].provider = serviceProviderAddress
    /\ actions[Len(actions)].actionOrigin = releaseFundsRequestMethodID
    /\ received[serviceProviderAddress] = 0

\* C30: a successful addFundsRequest appends exactly one entry with the
\* add-funds tag and balance = the committed balance it was built on + the
\* amount, and adds exactly the amount to the funds the contract holds; the
\* root is unchanged.
C30_AddFundsRequestEntry ==
    [][(last'.op = "addFundsRequest" /\ last'.ok) =>
          /\ Len(actions') = Len(actions) + 1
          /\ SubSeq(actions', 1, Len(actions)) = actions
          /\ \E i \in Indices :
                /\ accountsRoot[i] # emptyLeaf
                /\ actions'[Len(actions')] =
                      [map_accountOf(accountsRoot[i]) EXCEPT
                          !.actionOrigin = addFundsRequestMethodID,
                          !.balance = map_accountOf(accountsRoot[i]).balance
                                      + amounts'[Len(amounts')]]
          /\ zkAppBalance' = zkAppBalance + amounts'[Len(amounts')]
          /\ amounts'[Len(amounts')] \in Amounts
          /\ UNCHANGED <<accountsRoot, received>>]_vars

\* An add-funds request of one unit was dispatched on a committed balance of
\* 5: the entry carries 6 and the contract holds the deposit as well.
C30_Witness ==
    /\ last.op = "addFundsRequest" /\ last.ok
    /\ actions[Len(actions)].actionOrigin = addFundsRequestMethodID
    /\ actions[Len(actions)].balance = initialBalance + 1
    /\ zkAppBalance = initialBalance + 1
    /\ \E i \in Indices :
          /\ accountsRoot[i] # emptyLeaf
          /\ map_accountOf(accountsRoot[i]).balance = initialBalance

\* ------------------------------------------------------------------- C31
\* What one more successful call of setRangeOfActionsToBeProcessed would
\* assign equals what the state already holds: the state is a fixed point of
\* the handler.
setRangeFixedPoint ==
    /\ setRange_asserts
    /\ actionTurn = 0
    /\ numberOfPendingActions = countPending(endOfActionsRange).state
    /\ startOfActionsRange = endOfActionsRange
    /\ endOfActionsRange = countPending(endOfActionsRange).actionsHash

\* C31: a successful setRangeOfActionsToBeProcessed called when no entry was
\* dispatched after endOfActionsRange leaves numberOfPendingActions at 0 and
\* endOfActionsRange unchanged, and the state it produces is one that a second
\* such call reproduces; called on the freshly deployed contract it leaves
\* both cursors at the initial actions hash.
C31_OpenRangeWithoutEntriesIdempotent ==
    [][(/\ last'.op = "setRangeOfActionsToBeProcessed"
        /\ last'.ok
        /\ rangeEnd = Len(actions))
       => /\ numberOfPendingActions' = 0
          /\ endOfActionsRange' = endOfActionsRange
          /\ setRangeFixedPoint'
          /\ UNCHANGED <<actions, accountsRoot, ledgerVars>>
          /\ (last.op = "deploy"
                => /\ startOfActionsRange' = initialActionsHash
                   /\ endOfActionsRange' = initialActionsHash)]_vars

\* C31's case: a range was frozen and settled, and the range opened after it
\* found no new entry (its two cursors coincide past the initial hash).
C31_Witness ==
    /\ last.op = "setRangeOfActionsToBeProcessed"
    /\ last.ok
    /\ Len(settled) > 0
    /\ startOfActionsRange = endOfActionsRange
    /\ endOfActionsRange # initialActionsHash

\* ------------------------------------------------------------------- C32
\* Entries the log may hold when two identities deposit and one of them
\* issues two releases.
MaxCustodyActions == MaxActions + 1

\* doSignUpTxn
custody_doSignUpTxn ==
    /\ Len(actions) < MaxCustodyActions
    /\ \E publicKey \in PublicKeys : map_requestSignUp_method(publicKey, TRUE)

\* doReleaseFundsRequestTxn : a signed release built on the committed state
\* of the identity, asking for one unit or for the whole balance.
custody_doReleaseFundsRequestTxn ==
    /\ Len(actions) < MaxCustodyActions
    /\ \E i \in Indices :
          /\ accountsRoot[i] # emptyLeaf
          /\ \E amount \in Amounts \cup {map_accountOf(accountsRoot[i]).balance} :
                map_releaseFundsRequest_method(map_accountOf(accountsRoot[i]),
                                               getWitness(accountsRoot, i),
                                               amount, TRUE)

\* doAddFundsRequestTxn
custody_doAddFundsRequestTxn ==
    /\ Len(actions) < MaxCustodyActions
    /\ \E i \in Indices, amount \in Amounts :
          /\ accountsRoot[i] # emptyLeaf
          /\ map_addFundsRequest_method(map_accountOf(accountsRoot[i]),
                                        getWitness(accountsRoot, i), amount, TRUE)

NextMapCustody ==
    \/ custody_doSignUpTxn
    \/ custody_doReleaseFundsRequestTxn
    \/ custody_doAddFundsRequestTxn
    \/ map_doSetActionsRangeTxn
    \/ map_processSignUpAction
    \/ map_processReleaseFundsAction
    \/ map_processAddFundsAction

\* The MerkleMap variant with users that sign requests built on their
\* committed state and an operator that settles each entry with the committed
\* state and the witness of its identity.
SpecMapCustody == map_deploy /\ [][NextMapCustody]_vars

RECURSIVE deposited(_, _)
\* What publicKey sent to the contract with the first n entries of the log:
\* the initial balance with its sign-up, the amount with each add-funds request.
deposited(publicKey, n) ==
    IF n = 0 THEN 0
    ELSE deposited(publicKey, n - 1)
         + (IF /\ actions[n].publicKey = publicKey
               /\ actions[n].actionOrigin \in {signUpMethodID, addFundsRequestMethodID}
            THEN amounts[n] ELSE 0)

RECURSIVE paidOut(_, _)
\* What the contract sent to the service provider with the first n
\* settlements for entries of publicKey.
paidOut(publicKey, n) ==
    IF n = 0 THEN 0
    ELSE paidOut(publicKey, n - 1)
         + (IF /\ settled[n].publicKey = publicKey
               /\ settled[n].actionOrigin = releaseFundsRequestMethodID
            THEN settled[n].released ELSE 0)

\* C32: the contract has paid the service provider, for the release entries of
\* an identity, no more than that identity has deposited with its sign-up and
\* its add-funds requests.
C32_PayoutWithinDeposits ==
    \A publicKey \in PublicKeys :
       paidOut(publicKey, Len(settled)) <= deposited(publicKey, Len(actions))

\* ------------------------------------------------------------------- C33
\* C33: once every entry of the frozen range has been settled (actionTurn is
\* at or past the number of entries of the range) numberOfPendingActions is 0,
\* which is what setRangeOfActionsToBeProcessed asserts before opening the
\* next range.
C33_DrainedRangeHasNoPending ==
    (actionTurn >= rangeLength) => (numberOfPendingActions = 0)

\* ------------------------------------------------------------------- C34
\* C34: actionTurn plus numberOfPendingActions is the number of log entries
\* between startOfActionsRange and endOfActionsRange, and actionTurn lies
\* between 0 and that number.
C34_TurnPlusPendingIsRangeLength ==
    LET frozen == getActionsBetween(startOfActionsRange, endOfActionsRange)
    IN /\ actionTurn + numberOfPendingActions = Len(frozen)
       /\ 0 <= actionTurn
       /\ actionTurn <= Len(frozen)

\* C34's case: the second range opened holds two entries, dispatched while
\* the first range was being settled or after it, of which one is settled and
\* one is pending.
C34_Witness ==
    /\ startOfActionsRange # initialActionsHash
    /\ Len(getActionsBetween(startOfActionsRange, endOfActionsRange)) = 2
    /\ actionTurn = 1
    /\ numberOfPendingActions = 1

\* ------------------------------------------------------------------- C35
\* C35: the cursors move only in a successful setRangeOfActionsToBeProcessed,
\* which puts the new start at the previous end and the new end at the head of
\* the log: the new range holds exactly the entries dispatched after the
\* previous end, whether the previous range was open or drained when they were
\* dispatched, so the ranges opened one after the other split the log into
\* adjacent pieces without overlap.
C35_RangesContiguous ==
    [][IF last'.op = "setRangeOfActionsToBeProcessed" /\ last'.ok
       THEN /\ startOfActionsRange' = endOfActionsRange
            /\ rangeStart' = rangeEnd
            /\ rangeEnd' = Len(actions)
            /\ getActionsBetween(startOfActionsRange, endOfActionsRange)' =
                  getActionsFrom(endOfActionsRange)
            /\ actions' = actions
       ELSE /\ UNCHANGED <<startOfActionsRange, endOfActionsRange>>
            /\ rangeStart <= rangeEnd
            /\ rangeEnd <= Len(actions)]_vars

\* C35's case: the second range has been opened and holds the two entries
\* dispatched after the one entry of the first range.
C35_Witness ==
    /\ last.op = "setRangeOfActionsToBeProcessed"
    /\ last.ok
    /\ rangeStart = 1
    /\ rangeEnd = 3
    /\ numberOfPendingActions = 2

\* ------------------------------------------------------------------- C36
\* C36: a successful processReleaseFundsRequest changes no leaf other than the
\* one that holds the record of the identity (public key and account number)
\* named in the entry at the current turn.
C36_ReleaseWritesOwnLeafOnly ==
    [][(last'.op = "processReleaseFundsRequest" /\ last'.ok) =>
         \A i \in Indices :
            accountsRoot'[i] # accountsRoot[i] =>
               /\ accountsRoot[i] # emptyLeaf
               /\ accountOf(accountsRoot[i]).publicKey = entryAtTurn.publicKey
               /\ accountOf(accountsRoot[i]).accountNumber =
                     entryAtTurn.accountNumber]_vars

\* ------------------------------------------------------------------- C37
\* C37: the state a successful processSignUpRequestAction leaves is the one
\* computed from any witness the call accepts in the state before it: two
\* accepted witnesses cannot lead to different values of accountsRoot,
\* accountNumber, actionTurn or numberOfPendingActions.
C37_SignUpSettlementDetermined ==
    [][(last'.op = "processSignUpRequestAction" /\ last'.ok) =>
         \A w \in Witnesses :
            processSignUp_asserts(w) =>
               /\ accountsRoot' =
                     calculateRoot(w, hash([getCurrentAction.action
                                               EXCEPT !.accountNumber = accountNumber]))
               /\ accountNumber' = FieldAdd(accountNumber, 1)
               /\ actionTurn' = FieldAdd(getCurrentAction.actionTurn, 1)
               /\ numberOfPendingActions' = FieldSub(numberOfPendingActions, 1)]_vars

\* C37's case: a sign-up was settled on the empty tree, where the witness of
\* either leaf reconstructs the root with the empty leaf; the record is at
\* leaf 1, the account number it was given.
C37_Witness ==
    /\ last.op = "processSignUpRequestAction" /\ last.ok
    /\ staleRoot = emptyTree
    /\ accountsRoot[1] # emptyLeaf
    /\ accountsRoot[2] = emptyLeaf
    /\ accountNumber = 2

\* ------------------------------------------------------------------- C38
\* C38: every entry of the log dispatched by releaseFundsRequest records a
\* released amount between 0 and the balance it records, so the subtraction
\* balance - released that processReleaseFundsRequest makes on the entry at
\* the turn never goes below 0.
C38_ReleasedWithinBalance ==
    /\ \A n \in 1 .. Len(actions) :
          actions[n].actionOrigin = releaseFundsRequestMethodID =>
             /\ 0 <= actions[n].released
             /\ actions[n].released <= actions[n].balance
    /\ getCurrentAction.action.actionOrigin = releaseFundsRequestMethodID =>
          getCurrentAction.action.balance - getCurrentAction.action.released >= 0

\* C38's case: a release entry with a positive released amount was settled,
\* and the leaf written holds the entry's balance minus the released amount.
C38_Witness ==
    /\ last.op = "processReleaseFundsRequest" /\ last.ok
    /\ settled[Len(settled)].actionOrigin = releaseFundsRequestMethodID
    /\ settled[Len(settled)].released > 0
    /\ \E i \in Indices :
          /\ accountsRoot[i] # emptyLeaf
          /\ accountOf(accountsRoot[i]).balance =
                settled[Len(settled)].balance - settled[Len(settled)].released
          /\ accountOf(accountsRoot[i]).balance >= 0

\* ------------------------------------------------------------------- C39
\* C39: in the accumulator variant, after processSignUpRequestAction has
\* settled the entry at the turn, accountsRoot is the root computed from the
\* supplied witness and the hash of that entry (the root of the operator's
\* tree once the leaf is set), whether or not other entries follow it in the
\* range.
C39_AccumulatedRootIsNewRoot ==
    [][(last'.op = "processSignUpRequestAction" /\ last'.ok
        /\ actionTurn < rangeLength)
       => accountsRoot' = rootAsField(tree')]_vars

====
